---------------------------- MODULE Spec2Model ----------------------------
(***************************************************************************)
(* Model of cluster/transport/client.go: the RAFT cluster client with its  *)
(* single cached leader connection (Client.getConn, Client.Close), the     *)
(* operations built on it (Join, Remove, Apply, Query), Notify with its    *)
(* private connection, and the RPC address resolver (rpcResolver.Address). *)
(*                                                                         *)
(* Go strings are sequences of one-character strings; the zero string ""   *)
(* is the empty sequence <<>>.  A *grpc.ClientConn is an index into conns  *)
(* (the connections dialed so far), the nil pointer is NIL.                *)
(***************************************************************************)
EXTENDS Integers, Sequences, FiniteSets, TLC

\* ------------------------------------------------------------------ bounds

\* Longest raft address the resolver is run on in ResolverSpec.
MaxLen == 5

\* Number of calls of the client's operations in a run.
MaxCalls == 3

\* Number of goroutines calling the client concurrently.
NumThreads == 2

\* ----------------------------------------------------------------- strings

NIL == 0

Digits == <<"0", "1", "2", "3", "4", "5", "6", "7", "8", "9">>

IsDigit(c) == \E i \in 1..10 : Digits[i] = c

DigitVal(c) == (CHOOSE i \in 1..10 : Digits[i] = c) - 1

\* Index (1-based) of the first c in s, 0 when there is none.
IndexByte(s, c) ==
    IF \E i \in 1..Len(s) : s[i] = c
    THEN CHOOSE i \in 1..Len(s) : s[i] = c /\ \A j \in 1..(i - 1) : s[j] # c
    ELSE 0

\* Index (1-based) of the last c in s, 0 when there is none.
LastIndexByte(s, c) ==
    IF \E i \in 1..Len(s) : s[i] = c
    THEN CHOOSE i \in 1..Len(s) : s[i] = c /\ \A j \in (i + 1)..Len(s) : s[j] # c
    ELSE 0

\* s[from..Len(s)], the Go slice s[from-1:].
Suffix(s, from) == SubSeq(s, from, Len(s))

\* net.SplitHostPort as called at line 185: the port starts after the last
\* colon; a host in brackets loses its brackets; any other colon or bracket
\* is an error.
SplitHostPort(hostport) ==
    LET i    == LastIndexByte(hostport, ":")
        fail == [host |-> <<>>, port |-> <<>>, err |-> TRUE]
        end  == IndexByte(hostport, "]")
        brk  == hostport[1] = "["
        host == IF brk THEN SubSeq(hostport, 2, end - 1)
                       ELSE SubSeq(hostport, 1, i - 1)
        j    == IF brk THEN 2 ELSE 1
        k    == IF brk THEN end + 1 ELSE 1
    IN  IF i = 0 THEN fail
        ELSE IF brk /\ (end = 0 \/ end + 1 # i) THEN fail
        ELSE IF ~brk /\ IndexByte(host, ":") # 0 THEN fail
        ELSE IF IndexByte(Suffix(hostport, j), "[") # 0 THEN fail
        ELSE IF IndexByte(Suffix(hostport, k), "]") # 0 THEN fail
        ELSE [host |-> host, port |-> Suffix(hostport, i + 1), err |-> FALSE]

RECURSIVE DigitsVal(_)
\* Value of a sequence of decimal digits.
DigitsVal(s) ==
    IF s = <<>> THEN 0
    ELSE 10 * DigitsVal(SubSeq(s, 1, Len(s) - 1)) + DigitVal(s[Len(s)])

\* The largest and the smallest value of the Go int (64 bits).
MaxInt == 2^63 - 1
MinInt == 0 - 2^63

\* The largest value of the uint64 ParseUint computes in.
MaxUint == 2^64 - 1

RECURSIVE ParseUintFrom(_, _, _)
\* The loop of strconv.ParseUint(s, 10, 64) from character i on, n being
\* the value of the digits before it: a character that is no digit is a
\* syntax error with value 0; digits that leave the uint64 are a range
\* error with value MaxUint, whatever follows them.
ParseUintFrom(s, i, n) ==
    IF i > Len(s) THEN [val |-> n, err |-> ""]
    ELSE IF ~IsDigit(s[i]) THEN [val |-> 0, err |-> "syntax"]
    ELSE IF n >= (MaxUint \div 10) + 1 THEN [val |-> MaxUint, err |-> "range"]
    ELSE IF 10 * n + DigitVal(s[i]) > MaxUint THEN [val |-> MaxUint, err |-> "range"]
    ELSE ParseUintFrom(s, i + 1, 10 * n + DigitVal(s[i]))

\* strconv.ParseUint(s, 10, 64).
ParseUint(s) ==
    IF s = <<>> THEN [val |-> 0, err |-> "syntax"] ELSE ParseUintFrom(s, 1, 0)

\* strconv.ParseInt(s, 10, 0): the sign, then ParseUint; its syntax error
\* is handed on with value 0; a value outside the int, ParseUint's range
\* error included, gives the nearest bound of the int and a range error.
ParseInt(s) ==
    LET signed == s # <<>> /\ s[1] \in {"+", "-"}
        neg    == signed /\ s[1] = "-"
        un     == ParseUint(IF signed THEN Tail(s) ELSE s)
    IN  IF s = <<>> \/ un.err = "syntax" THEN [val |-> 0, err |-> "syntax"]
        ELSE IF ~neg /\ un.val >= 2^63 THEN [val |-> MaxInt, err |-> "range"]
        ELSE IF neg /\ un.val > 2^63 THEN [val |-> MinInt, err |-> "range"]
        ELSE [val |-> IF neg THEN 0 - un.val ELSE un.val, err |-> ""]

\* strconv.Atoi as called at line 192: an optional sign, then one or more
\* decimal digits.  A string of 1 to 18 characters takes Atoi's fast path,
\* where no value can be out of range; any other is parsed by
\* ParseInt(s, 10, 0).  The result is (value, error) as [val, err].
Atoi(s) ==
    LET signed == s[1] \in {"+", "-"}
        body   == IF signed THEN Tail(s) ELSE s
        slow   == ParseInt(s)
    IN  IF 0 < Len(s) /\ Len(s) < 19
        THEN IF body = <<>> \/ \E i \in 1..Len(body) : ~IsDigit(body[i])
             THEN [val |-> 0, err |-> TRUE]
             ELSE [val |-> IF s[1] = "-" THEN 0 - DigitsVal(body)
                                         ELSE DigitsVal(body),
                   err |-> FALSE]
        ELSE [val |-> slow.val, err |-> slow.err # ""]

RECURSIVE NatToStr(_)
NatToStr(n) ==
    IF n < 10 THEN <<Digits[n + 1]>>
    ELSE NatToStr(n \div 10) \o <<Digits[(n % 10) + 1]>>

\* The %d verb of fmt.Sprintf.
Itoa(n) == IF n < 0 THEN <<"-">> \o NatToStr(0 - n) ELSE NatToStr(n)

\* fmt.Sprintf("%s:%d", host, port) of lines 190 and 197.
SprintfHostPort(host, port) == host \o <<":">> \o Itoa(port)

\* iPort+1 of line 197 in the 64-bit Go int: MaxInt + 1 wraps to MinInt.
\* For a port of fewer than 10 digits the sum is far from the bounds.
IncInt(v) ==
    IF 0 - 1000000000 < v /\ v < 1000000000 THEN v + 1
    ELSE ((v + 1 - MinInt) % 2^64) + MinInt

\* Mutant of Address: the port is parsed in fixed-port mode as well.
AddressAtoiAlways(r, raftAddr) ==
    LET hp    == SplitHostPort(raftAddr)
        iPort == Atoi(hp.port)
    IN  IF hp.err \/ iPort.err THEN [addr |-> <<>>, err |-> TRUE]
        ELSE IF ~r.isLocalCluster
             THEN [addr |-> SprintfHostPort(hp.host, r.rpcPort), err |-> FALSE]
        ELSE [addr |-> SprintfHostPort(hp.host, IncInt(iPort.val)), err |-> FALSE]

\* rpcResolver.Address: (address, error) as [addr, err]; the address is ""
\* when err is set.
Address(r, raftAddr) ==
    LET hp    == SplitHostPort(raftAddr)
        iPort == Atoi(hp.port)
    IN  IF hp.err THEN [addr |-> <<>>, err |-> TRUE]
        ELSE IF ~r.isLocalCluster
             THEN [addr |-> SprintfHostPort(hp.host, r.rpcPort), err |-> FALSE]
        ELSE IF iPort.err THEN [addr |-> <<>>, err |-> TRUE]
        ELSE [addr |-> SprintfHostPort(hp.host, IncInt(iPort.val)), err |-> FALSE]

\* NewRPCResolver.
NewRPCResolver(isLocalHost, rpcPort) ==
    [isLocalCluster |-> isLocalHost, rpcPort |-> rpcPort]


\* ------------------------------------------------------------------- state

Threads == 1..NumThreads

\* Raft addresses the callers pass: two leaders and one malformed address.
AddrA == <<"a", ":", "7">>
AddrB == <<"b", ":", "7">>
AddrBad == <<"c">>
Addrs == {AddrA, AddrB, AddrBad}

\* Status a remote call can end with; CANCELED is what a call on a closed
\* connection ends with.
Outcomes == {"OK", "UNAVAILABLE", "CANCELED"}

\* Resolvers a Client is constructed with (NewClient(NewRPCResolver(..))).
Resolvers == {NewRPCResolver(FALSE, 8300), NewRPCResolver(TRUE, 8300)}

VARIABLES
    rpc,         \* Client.rpc: the resolver, fixed at construction
    connLock,    \* Client.connLock: 0 when free, else the goroutine holding it
    leaderAddr,  \* Client.leaderAddr
    leaderConn,  \* Client.leaderConn: NIL or an index into conns
    conns,       \* every connection dialed so far: [target, closes, cached, released]
    g,           \* per goroutine: the call it is in, [pc, op, arg, addr, conn, trace]
    last,        \* what the call that returned last returned: [phase, val]
    calls,       \* number of calls entered so far
    panicked,    \* the process died of a nil pointer dereference
    raftAddr,    \* ResolverSpec: the input of rpcResolver.Address
    resolved     \* ResolverSpec: its output, once called

cacheVars == <<connLock, leaderAddr, leaderConn>>
clientVars == <<cacheVars, conns, g, last, calls, panicked>>
resolverVars == <<raftAddr, resolved>>
vars == <<rpc, clientVars, resolverVars>>

\* One thing a call did: a close of, dial of, remote call on or reply from
\* connection h, a resolver call, or getConn's return of h.
Event(e, h, x) == [ev |-> e, h |-> h, x |-> x]

\* The events of kind e in trace tr.
EventsOf(tr, e) == {i \in 1..Len(tr) : tr[i].ev = e}

IsOpen(h) == h # NIL /\ conns[h].closes = 0

\* getConn hands connection h to its caller: the event records whether h is
\* open at that moment, was closed by Client.Close, or was closed otherwise.
Returned(h) ==
    Event("return", h, IF IsOpen(h) THEN "open"
                       ELSE IF conns[h].released THEN "released" ELSE "closed")

\* A connection as grpc.Dial (line 157, kept in the cache) or
\* grpc.DialContext (line 92, private to Notify) returns it for target.
NewConn(target, cached) ==
    [target |-> target, closes |-> 0, cached |-> cached, released |-> FALSE]

\* grpc.ClientConn.Close() on connection h (lines 96, 135, 149).
ConnClose(cs, h) == [cs EXCEPT ![h].closes = @ + 1]

\* A goroutine that is in no call.
Idle == [pc |-> "idle", op |-> "", arg |-> <<>>, addr |-> <<>>, conn |-> NIL,
         trace |-> <<>>]

NoResult == [phase |-> "", val |-> ""]

\* Mutant of Errorf: the error handed on without its phase.
ErrorfUnwrapped(phase) == [phase |-> "", val |-> "err"]

\* fmt.Errorf("resolve address: %w", err) and fmt.Errorf("dial: %w", err).
Errorf(phase) == [phase |-> phase, val |-> "err"]

\* What the remote call returned, handed on as it is.
RemoteResult(out) == [phase |-> "remote", val |-> out]

\* NewClient: an empty cache, an unlocked mutex; no goroutine is in a call.
ClientInit ==
    /\ connLock = 0
    /\ leaderAddr = <<>>
    /\ leaderConn = NIL
    /\ conns = <<>>
    /\ g = [t \in Threads |-> Idle]
    /\ last = NoResult
    /\ calls = 0
    /\ panicked = FALSE

Init ==
    /\ rpc \in Resolvers
    /\ ClientInit
    /\ raftAddr = <<>>
    /\ resolved = [addr |-> <<>>, err |-> FALSE, called |-> FALSE]

\* Goroutine t is at step p of its call.
At(t, p) == ~panicked /\ g[t].pc = p

\* A goroutine that is in no call can enter one.  Goroutines that are in no
\* call are all alike (Idle), so a new call is given to the first of them.
CanEnter(t) ==
    /\ At(t, "idle")
    /\ \A u \in 1..(t - 1) : g[u].pc # "idle"
    /\ calls < MaxCalls

\* Goroutine t goes on to step p, having done events evs.
Goto(t, p, evs) == g' = [g EXCEPT ![t].pc = p, ![t].trace = @ \o evs]

\* Goroutine t's call returns r.
Finish(t, r) ==
    /\ g' = [g EXCEPT ![t] = Idle]
    /\ last' = r

\* ----------------------------------------------------------------- getConn

\* Mutant of CanLock: getConn without the lock.
CanLockAlways == TRUE

\* connLock.Lock() of line 140 can return.
CanLock == connLock = 0

\* Mutant of CacheHit: the comparison of the addresses inverted.
CacheHitOtherAddr(a) == leaderConn # NIL /\ a # leaderAddr

\* Line 143: the cache holds a connection and it is for address a.
CacheHit(a) == leaderConn # NIL /\ a = leaderAddr

\* Lines 140-145: take the lock; on a hit return the cached connection (the
\* deferred Unlock leaves the lock free), on a miss go on holding the lock.
GetConnCheck(t, o, a) ==
    /\ CanEnter(t)
    /\ CanLock
    /\ calls' = calls + 1
    /\ IF CacheHit(a)
       THEN /\ g' = [g EXCEPT ![t] = [pc |-> "call", op |-> o, arg |-> a,
                                      addr |-> <<>>, conn |-> leaderConn,
                                      trace |-> <<Returned(leaderConn)>>]]
            /\ UNCHANGED connLock
       ELSE /\ g' = [g EXCEPT ![t] = [pc |-> "gc_close", op |-> o, arg |-> a,
                                      addr |-> <<>>, conn |-> NIL, trace |-> <<>>]]
            /\ connLock' = t
    /\ UNCHANGED <<rpc, leaderAddr, leaderConn, conns, last, panicked, resolverVars>>

\* The first lines of Join, Remove, Apply and Query: the call of getConn.
Join(t, a) == GetConnCheck(t, "Join", a)

Remove(t, a) == GetConnCheck(t, "Remove", a)

Apply(t, a) == GetConnCheck(t, "Apply", a)

Query(t, a) == GetConnCheck(t, "Query", a)

\* Mutant of GetConnCloseStale: the stale connection is not closed.
GetConnCloseStaleSkipped(t) ==
    /\ At(t, "gc_close")
    /\ Goto(t, "gc_resolve", <<>>)
    /\ UNCHANGED <<rpc, cacheVars, conns, last, calls, panicked, resolverVars>>

\* Lines 147-150: close the cached connection if there is one.
GetConnCloseStale(t) ==
    /\ At(t, "gc_close")
    /\ IF leaderConn # NIL
       THEN /\ conns' = ConnClose(conns, leaderConn)
            /\ Goto(t, "gc_resolve", <<Event("close", leaderConn, "")>>)
       ELSE /\ Goto(t, "gc_resolve", <<>>)
            /\ UNCHANGED conns
    /\ UNCHANGED <<rpc, cacheVars, last, calls, panicked, resolverVars>>

\* Lines 152-155: resolve the address; on failure return the wrapped error.
GetConnResolve(t) ==
    /\ At(t, "gc_resolve")
    /\ LET r == Address(rpc, g[t].arg)
       IN  IF r.err
           THEN /\ Finish(t, Errorf("resolve address"))
                /\ connLock' = 0
           ELSE /\ g' = [g EXCEPT ![t].pc = "gc_dial", ![t].addr = r.addr,
                                  ![t].trace = Append(@, Event("resolve", NIL, ""))]
                /\ UNCHANGED <<last, connLock>>
    /\ UNCHANGED <<rpc, leaderAddr, leaderConn, conns, calls, panicked, resolverVars>>

\* Lines 157-164: grpc.Dial assigns cl.leaderConn, the new connection or,
\* with an error, nil; on failure return the wrapped error.
GetConnDial(t) ==
    /\ At(t, "gc_dial")
    /\ \/ /\ conns' = Append(conns, NewConn(g[t].addr, TRUE))
          /\ leaderConn' = Len(conns) + 1
          /\ Goto(t, "gc_bind", <<Event("dial", Len(conns) + 1, "")>>)
          /\ UNCHANGED <<last, connLock>>
       \/ /\ leaderConn' = NIL
          /\ Finish(t, Errorf("dial"))
          /\ connLock' = 0
          /\ UNCHANGED conns
    /\ UNCHANGED <<rpc, leaderAddr, calls, panicked, resolverVars>>

\* Mutant of GetConnBind: getConn returning without the deferred Unlock.
GetConnBindKeepsLock(t) ==
    /\ At(t, "gc_bind")
    /\ leaderAddr' = g[t].arg
    /\ g' = [g EXCEPT ![t].pc = "call", ![t].conn = leaderConn,
                      ![t].trace = Append(@, Returned(leaderConn))]
    /\ UNCHANGED <<rpc, connLock, leaderConn, conns, last, calls, panicked, resolverVars>>

\* Lines 166-169: record the address, return the connection, unlock.
GetConnBind(t) ==
    /\ At(t, "gc_bind")
    /\ leaderAddr' = g[t].arg
    /\ g' = [g EXCEPT ![t].pc = "call", ![t].conn = leaderConn,
                      ![t].trace = Append(@, Returned(leaderConn))]
    /\ connLock' = 0
    /\ UNCHANGED <<rpc, leaderConn, conns, last, calls, panicked, resolverVars>>

\* ------------------------------------------------------------ remote calls

\* The status a remote call on connection h ends with: any the server
\* gives, or CANCELED once the connection is closed.
RemoteOutcomes(h) == IF IsOpen(h) THEN Outcomes \ {"CANCELED"} ELSE {"CANCELED"}

\* Lines 81-82, 108-109, 119-120, 129-130: issue the remote call on conn.
Call(t) ==
    /\ At(t, "call")
    /\ Goto(t, "inflight", <<Event("rpc", g[t].conn, "")>>)
    /\ UNCHANGED <<rpc, cacheVars, conns, last, calls, panicked, resolverVars>>

\* The remote call ends and Join, Remove, Apply or Query returns its result.
Return(t) ==
    /\ At(t, "inflight")
    /\ \E out \in RemoteOutcomes(g[t].conn) :
          Finish(t, RemoteResult(out))
    /\ UNCHANGED <<rpc, cacheVars, conns, calls, panicked, resolverVars>>

\* ------------------------------------------------------------------ Notify

\* Line 86: Notify is called.
Notify(t, a) ==
    /\ CanEnter(t)
    /\ calls' = calls + 1
    /\ g' = [g EXCEPT ![t] = [pc |-> "n_resolve", op |-> "Notify", arg |-> a,
                              addr |-> <<>>, conn |-> NIL, trace |-> <<>>]]
    /\ UNCHANGED <<rpc, cacheVars, conns, last, panicked, resolverVars>>

\* Lines 87-90: resolve the address; on failure return the wrapped error.
NotifyResolve(t) ==
    /\ At(t, "n_resolve")
    /\ LET r == Address(rpc, g[t].arg)
       IN  IF r.err
           THEN Finish(t, Errorf("resolve address"))
           ELSE /\ g' = [g EXCEPT ![t].pc = "n_dial", ![t].addr = r.addr,
                                  ![t].trace = Append(@, Event("resolve", NIL, ""))]
                /\ UNCHANGED last
    /\ UNCHANGED <<rpc, cacheVars, conns, calls, panicked, resolverVars>>

\* Mutant of NotifyDial: Notify keeps its connection in the leader cache.
NotifyDialIntoCache(t) ==
    /\ At(t, "n_dial")
    /\ conns' = Append(conns, NewConn(g[t].addr, TRUE))
    /\ leaderConn' = Len(conns) + 1
    /\ leaderAddr' = g[t].arg
    /\ g' = [g EXCEPT ![t].pc = "n_call", ![t].conn = Len(conns) + 1,
                      ![t].trace = Append(@, Event("dial", Len(conns) + 1, ""))]
    /\ UNCHANGED <<rpc, connLock, last, calls, panicked, resolverVars>>

\* Lines 92-95: dial a connection of its own; on failure return the wrapped
\* error.
NotifyDial(t) ==
    /\ At(t, "n_dial")
    /\ \/ /\ conns' = Append(conns, NewConn(g[t].addr, FALSE))
          /\ g' = [g EXCEPT ![t].pc = "n_call", ![t].conn = Len(conns) + 1,
                            ![t].trace = Append(@, Event("dial", Len(conns) + 1, ""))]
          /\ UNCHANGED last
       \/ /\ Finish(t, Errorf("dial"))
          /\ UNCHANGED conns
    /\ UNCHANGED <<rpc, cacheVars, calls, panicked, resolverVars>>

\* Lines 97-98: issue NotifyPeer on the private connection.
NotifyCall(t) ==
    /\ At(t, "n_call")
    /\ Goto(t, "n_inflight", <<Event("rpc", g[t].conn, "")>>)
    /\ UNCHANGED <<rpc, cacheVars, conns, last, calls, panicked, resolverVars>>

\* Mutant of DeferredClose: Notify without its defer.
DeferredCloseMissing(cs, h) == cs

\* Line 96: the deferred conn.Close() of Notify's own connection.
DeferredClose(cs, h) == ConnClose(cs, h)

\* Lines 96 and 98: NotifyPeer ends, the deferred conn.Close() runs and
\* Notify returns the remote result.
NotifyReturn(t) ==
    /\ At(t, "n_inflight")
    /\ \E out \in RemoteOutcomes(g[t].conn) :
          Finish(t, RemoteResult(out))
    /\ conns' = DeferredClose(conns, g[t].conn)
    /\ UNCHANGED <<rpc, cacheVars, calls, panicked, resolverVars>>

\* ------------------------------------------------------------------- Close

\* Line 133: Close is called.
Close(t) ==
    /\ CanEnter(t)
    /\ calls' = calls + 1
    /\ g' = [g EXCEPT ![t] = [pc |-> "cl_check", op |-> "Close", arg |-> <<>>,
                              addr |-> <<>>, conn |-> NIL, trace |-> <<>>]]
    /\ UNCHANGED <<rpc, cacheVars, conns, last, panicked, resolverVars>>

\* Line 134: Close reads cl.leaderConn without taking connLock and returns
\* when it is nil.
CloseCheck(t) ==
    /\ At(t, "cl_check")
    /\ IF leaderConn = NIL
       THEN Finish(t, NoResult)
       ELSE /\ g' = [g EXCEPT ![t].pc = "cl_load", ![t].conn = leaderConn]
            /\ UNCHANGED last
    /\ UNCHANGED <<rpc, cacheVars, conns, calls, panicked, resolverVars>>

\* Line 135, the receiver of cl.leaderConn.Close(): the unsynchronised
\* second read of cl.leaderConn yields the value line 134 saw or the value
\* a concurrent getConn has stored since.
CloseLoad(t) ==
    /\ At(t, "cl_load")
    /\ \E h \in {g[t].conn, leaderConn} :
          g' = [g EXCEPT ![t].pc = "cl_close", ![t].conn = h]
    /\ UNCHANGED <<rpc, cacheVars, conns, last, calls, panicked, resolverVars>>

\* Line 135, the call: Close() on the connection that was loaded, whatever
\* getConn has done to the cache since; on a nil connection it
\* dereferences nil.
CloseConn(t) ==
    /\ At(t, "cl_close")
    /\ LET h == g[t].conn
       IN  IF h = NIL
           THEN /\ panicked' = TRUE
                /\ UNCHANGED <<conns, g, last>>
           ELSE /\ conns' = [ConnClose(conns, h) EXCEPT ![h].released = TRUE]
                /\ Finish(t, NoResult)
                /\ UNCHANGED panicked
    /\ UNCHANGED <<rpc, cacheVars, calls, resolverVars>>

\* -------------------------------------------------------------------- Spec

Next ==
    \E t \in Threads :
       \/ \E a \in Addrs : Join(t, a)
       \/ \E a \in Addrs : Remove(t, a)
       \/ \E a \in Addrs : Apply(t, a)
       \/ \E a \in Addrs : Query(t, a)
       \/ \E a \in Addrs : Notify(t, a)
       \/ Close(t)
       \/ GetConnCloseStale(t)
       \/ GetConnResolve(t)
       \/ GetConnDial(t)
       \/ GetConnBind(t)
       \/ Call(t)
       \/ Return(t)
       \/ NotifyResolve(t)
       \/ NotifyDial(t)
       \/ NotifyCall(t)
       \/ NotifyReturn(t)
       \/ CloseCheck(t)
       \/ CloseLoad(t)
       \/ CloseConn(t)

Spec == Init /\ [][Next]_vars

\* --------------------------------------------------------------- RetrySpec

\* The remote call of Spec's Return, taken apart into the attempts the
\* transport makes under serviceConfig and the caller's cancellation of the
\* context it passed.

\* serviceConfig, "name": the methods the policy is for.
RetryMethods == {"Apply", "Query"}

\* serviceConfig, "MaxAttempts".
MaxAttempts == 5

\* serviceConfig, "RetryableStatusCodes".
RetryableStatusCodes ==
    {"ABORTED", "RESOURCE_EXHAUSTED", "INTERNAL", "UNAVAILABLE", "NOT_FOUND"}

\* Status codes an attempt can end with.
Codes == RetryableStatusCodes \cup {"OK", "CANCELED", "DEADLINE_EXCEEDED"}

\* The method of ClusterService each operation calls (lines 82, 98, 109,
\* 120, 130).
Method(op) ==
    CASE op = "Join"   -> "JoinPeer"
      [] op = "Notify" -> "NotifyPeer"
      [] op = "Remove" -> "RemovePeer"
      [] op = "Apply"  -> "Apply"
      [] op = "Query"  -> "Query"

\* The status an attempt on connection h ends with.
RemoteCodes(h) == IF IsOpen(h) THEN Codes \ {"CANCELED"} ELSE {"CANCELED"}

\* Attempts made so far in the call with trace tr: the first, issued with
\* the call, and the retries.
Attempts(tr) == Cardinality(EventsOf(tr, "rpc")) + Cardinality(EventsOf(tr, "retry"))

\* The policy has consumed the outcomes of the earlier attempts: only the
\* outcome that led to the latest retry is kept.
Consumed(tr) ==
    [i \in 1..Len(tr) |-> IF tr[i].ev = "retry" THEN Event("retry", tr[i].h, "")
                                                ELSE tr[i]]

\* Mutant of ShouldRetry: the policy applied to every method and connection.
ShouldRetryAnyMethod(h, method, out, n) ==
    out \in RetryableStatusCodes /\ n < MaxAttempts

\* The transport may make another attempt after the n-th attempt of method
\* on connection h ended with out: h carries serviceConfig (the
\* connections of line 157-161 do, Notify's of line 92 does not), the
\* policy names the method, out is retryable and attempts are left.
ShouldRetry(h, method, out, n) ==
    /\ conns[h].cached
    /\ method \in RetryMethods
    /\ out \in RetryableStatusCodes
    /\ n < MaxAttempts

\* Mutant of CallCtx: Apply passing on a context of its caller.
CallCtxCaller(op) == "caller"

\* The context the remote call is issued with: context.Background() in
\* Apply (line 113), the caller's ctx in Join, Notify, Remove and Query.
CallCtx(op) == IF op = "Apply" THEN "background" ELSE "caller"

\* The context of goroutine t's remote call is cancelled.
Cancelled(t) ==
    CallCtx(g[t].op) = "caller" /\ EventsOf(g[t].trace, "cancel") # {}

\* The caller of goroutine t's call cancels its context while the remote
\* call is in flight.
Cancel(t) ==
    /\ ~panicked
    /\ g[t].pc \in {"inflight", "n_inflight"}
    /\ EventsOf(g[t].trace, "cancel") = {}
    /\ Goto(t, g[t].pc, <<Event("cancel", NIL, "")>>)
    /\ UNCHANGED <<rpc, cacheVars, conns, last, calls, panicked, resolverVars>>

\* One attempt of goroutine t's remote call ends, with CANCELED when the
\* call's context is cancelled, else with a status out; the transport makes
\* another attempt, if it may, or the call returns out.
AttemptEnds(t) ==
    LET h == g[t].conn
    IN  IF Cancelled(t)
        THEN Finish(t, RemoteResult("CANCELED"))
        ELSE \E out \in RemoteCodes(h) :
                \/ /\ ShouldRetry(h, Method(g[t].op), out, Attempts(g[t].trace))
                   /\ g' = [g EXCEPT ![t].trace =
                                Append(Consumed(@), Event("retry", h, out))]
                   /\ UNCHANGED last
                \/ Finish(t, RemoteResult(out))

\* Lines 82, 109, 120, 130: an attempt of JoinPeer, RemovePeer, Apply or
\* Query ends.
Attempt(t) ==
    /\ At(t, "inflight")
    /\ AttemptEnds(t)
    /\ UNCHANGED <<rpc, cacheVars, conns, calls, panicked, resolverVars>>

\* Lines 96 and 98: an attempt of NotifyPeer ends; when Notify returns, its
\* deferred conn.Close() runs.
NotifyAttempt(t) ==
    /\ At(t, "n_inflight")
    /\ AttemptEnds(t)
    /\ conns' = IF g'[t].pc = "idle" THEN DeferredClose(conns, g[t].conn) ELSE conns
    /\ UNCHANGED <<rpc, cacheVars, calls, panicked, resolverVars>>

\* The goroutine whose calls RetrySpec follows.
Caller == 1

RetryNext ==
    \E t \in {Caller} :
       \/ \E a \in {AddrA, AddrB} : Join(t, a)
       \/ \E a \in {AddrA, AddrB} : Remove(t, a)
       \/ \E a \in {AddrA, AddrB} : Apply(t, a)
       \/ \E a \in {AddrA, AddrB} : Query(t, a)
       \/ \E a \in {AddrA, AddrB} : Notify(t, a)
       \/ GetConnCloseStale(t)
       \/ GetConnResolve(t)
       \/ GetConnDial(t)
       \/ GetConnBind(t)
       \/ Call(t)
       \/ NotifyResolve(t)
       \/ NotifyDial(t)
       \/ NotifyCall(t)
       \/ Cancel(t)
       \/ Attempt(t)
       \/ NotifyAttempt(t)

RetrySpec == Init /\ [][RetryNext]_vars


\* ------------------------------------------------------------ ResolverSpec

\* Characters the resolver's inputs are made of.
Alphabet == {"a", ":", "[", "]", "7", "9", "-"}

\* Every string over Alphabet of at most MaxLen characters.
Inputs == UNION {[1..n -> Alphabet] : n \in 0..MaxLen}

\* A resolver in either mode is handed one raft address.
ResolverInit ==
    /\ rpc \in {NewRPCResolver(FALSE, 8300), NewRPCResolver(TRUE, 8300),
                NewRPCResolver(FALSE, 0)}
    /\ ClientInit
    /\ raftAddr \in Inputs
    /\ resolved = [addr |-> <<>>, err |-> FALSE, called |-> FALSE]

\* The call rpc.Address(raftAddr) of lines 87 and 152.
ResolverCall ==
    /\ ~resolved.called
    /\ LET r == Address(rpc, raftAddr)
       IN  resolved' = [addr |-> r.addr, err |-> r.err, called |-> TRUE]
    /\ UNCHANGED <<rpc, clientVars, raftAddr>>

ResolverNext == ResolverCall

ResolverSpec == ResolverInit /\ [][ResolverNext]_vars

\* The text before the last colon of s, and the text after it.
HostText(s) == SubSeq(s, 1, LastIndexByte(s, ":") - 1)
PortText(s) == Suffix(s, LastIndexByte(s, ":") + 1)

\* "10.0.0.5:7000", "10.0.0.5:8300" and "10.0.0.5:7001".
Example7000 == <<"1", "0", ".", "0", ".", "0", ".", "5", ":", "7", "0", "0", "0">>
Example8300 == <<"1", "0", ".", "0", ".", "0", ".", "5", ":", "8", "3", "0", "0">>
Example7001 == <<"1", "0", ".", "0", ".", "0", ".", "5", ":", "7", "0", "0", "1">>

\* C10 (as claimed): for every well-formed host:port the resolver returns
\* the same host text followed by ":" and the configured service port
\* (fixed-port mode) or by ":" and port+1 (offset mode); the example
\* "10.0.0.5:7000" maps to "10.0.0.5:8300" and to "10.0.0.5:7001".
C10_ResolverMapsHostPort ==
    /\ Address(NewRPCResolver(FALSE, 8300), Example7000) = [addr |-> Example8300, err |-> FALSE]
    /\ Address(NewRPCResolver(TRUE, 8300), Example7000) = [addr |-> Example7001, err |-> FALSE]
    /\ (resolved.called /\ ~SplitHostPort(raftAddr).err
          /\ (rpc.isLocalCluster => ~Atoi(PortText(raftAddr)).err))
       => /\ ~resolved.err
          /\ HostText(resolved.addr) = HostText(raftAddr)
          /\ PortText(resolved.addr) =
                IF rpc.isLocalCluster THEN Itoa(Atoi(PortText(raftAddr)).val + 1)
                                      ELSE Itoa(rpc.rpcPort)

\* s has none of the characters cs.
Without(s, cs) == \A i \in 1..Len(s) : s[i] \notin cs

\* s is a well-formed host:port pair: a host without colon or bracket, or a
\* host in one pair of brackets, then a colon, then a port without bracket.
WellFormed(s) ==
    LET i == LastIndexByte(s, ":")
        h == HostText(s)
    IN  /\ i # 0
        /\ Without(PortText(s), {"[", "]"})
        /\ \/ Without(h, {":", "[", "]"})
           \/ /\ Len(h) >= 2 /\ h[1] = "[" /\ h[Len(h)] = "]"
              /\ Without(SubSeq(h, 2, Len(h) - 1), {"[", "]"})

\* s is a decimal integer: an optional sign and one or more digits.
IsInteger(s) ==
    LET body == IF s # <<>> /\ s[1] \in {"+", "-"} THEN Tail(s) ELSE s
    IN  body # <<>>
        /\ \A i \in 1..Len(body) :
              body[i] \in {"0", "1", "2", "3", "4", "5", "6", "7", "8", "9"}

NotAnAddress == <<"n", "o", "t", "-", "a", "n", "-", "a", "d", "d", "r", "e", "s", "s">>

\* C11: the resolver returns an error and no address when its input is not
\* a well-formed host:port pair, in both modes, and in offset mode when the
\* port is not an integer; in fixed-port mode a well-formed host:port is no
\* error whatever its port is; "not-an-address" is an error in both modes.
C11_ResolverErrors ==
    /\ \A r \in Resolvers : Address(r, NotAnAddress) = [addr |-> <<>>, err |-> TRUE]
    /\ resolved.called =>
          /\ ~WellFormed(raftAddr) => resolved.err
          /\ (rpc.isLocalCluster /\ WellFormed(raftAddr)
                /\ ~IsInteger(PortText(raftAddr))) => resolved.err
          /\ (~rpc.isLocalCluster /\ WellFormed(raftAddr)) => ~resolved.err
          /\ resolved.err => resolved.addr = <<>>

\* C11 witness: offset mode has refused a well-formed host:port whose port
\* is not an integer.
C11_Witness ==
    /\ resolved.called /\ resolved.err /\ resolved.addr = <<>>
    /\ rpc.isLocalCluster
    /\ WellFormed(raftAddr) /\ ~IsInteger(PortText(raftAddr))
    /\ HostText(raftAddr) = <<"a">>

\* ------------------------------------------------------------------ claims

GetConnOps == {"Join", "Remove", "Apply", "Query"}

\* Goroutine t holds a connection getConn returned to it without error.
HoldsReturned(t) == g[t].op \in GetConnOps /\ g[t].pc \in {"call", "inflight"}

\* The event of getConn's return in the trace of a goroutine that holds a
\* returned connection: the last event before any remote call.
ReturnEvent(t) ==
    LET tr == g[t].trace
    IN  tr[CHOOSE i \in 1..Len(tr) : tr[i].ev = "return"]

\* C1 (as claimed): a connection that Client.Close() has closed is no longer
\* in the cache (the cache is Empty after Close), and no later Join, Remove,
\* Apply or Query is handed that connection for its remote call: it gets a
\* freshly dialed one.
C1_CloseEmptiesCache ==
    /\ leaderConn # NIL => ~conns[leaderConn].released
    /\ \A t \in Threads : HoldsReturned(t) => ReturnEvent(t).x # "released"

\* C2 (as claimed): every connection getConn returns without error is open
\* at the moment it is returned and was dialed for the resolved address of
\* the address getConn was called with.
C2_ReturnedOpenForAddr ==
    \A t \in Threads :
       HoldsReturned(t) =>
          /\ ReturnEvent(t).x = "open"
          /\ ReturnEvent(t).h = g[t].conn
          /\ conns[g[t].conn].target = Address(rpc, g[t].arg).addr

\* C6 (as claimed): across any sequence of Close() and getConn calls no
\* connection is closed more than once.
C6_NoDoubleClose ==
    \A h \in 1..Len(conns) : conns[h].closes <= 1


\* Goroutine t takes a step from p to q.
Steps(t, p, q) == g[t].pc = p /\ g'[t].pc = q

\* C3: a getConn(addr) on a cache that holds a connection for addr returns
\* that connection at once: no close, no resolver call, no dial (its trace
\* is the return alone), and the cache fields and every connection are as
\* before; so any number of such calls add no dial to the one that bound
\* the cache and all return the same connection.
C3_HitReusesConn ==
    [][\A t \in Threads :
          (g[t].pc = "idle" /\ g'[t].op \in GetConnOps
             /\ leaderConn # NIL /\ leaderAddr = g'[t].arg)
          => /\ g'[t].pc = "call"
             /\ g'[t].conn = leaderConn
             /\ g'[t].trace = <<Returned(leaderConn)>>
             /\ UNCHANGED <<cacheVars, conns>>]_vars

\* C3 witness: a second call for the bound address holds the one connection
\* dialed so far, straight from the cache.
C3_Witness ==
    \E t \in Threads :
       /\ HoldsReturned(t) /\ Len(g[t].trace) = 1
       /\ calls >= 2 /\ Len(conns) = 1
       /\ g[t].conn = leaderConn /\ g[t].arg = leaderAddr /\ IsOpen(leaderConn)

\* C4: a getConn(b) that succeeds on a cache holding a connection for
\* another address makes one Close call on the cached connection (line
\* 149), then dials one new connection for the resolved address of b; the
\* cached connection is closed before the dial, and at the return the cache
\* is bound to b with the new connection.
C4_ReplaceClosesThenDials ==
    [][\A t \in Threads :
          /\ (Steps(t, "gc_close", "gc_resolve") /\ leaderConn # NIL)
             => /\ conns' = [conns EXCEPT ![leaderConn].closes = @ + 1]
                /\ g'[t].trace = <<Event("close", leaderConn, "")>>
                /\ UNCHANGED cacheVars
          /\ Steps(t, "gc_dial", "gc_bind")
             => /\ leaderConn # NIL
                   => /\ conns[leaderConn].closes >= 1
                      /\ g[t].trace[1] = Event("close", leaderConn, "")
                /\ conns' = Append(conns, NewConn(Address(rpc, g[t].arg).addr, TRUE))
                /\ leaderConn' = Len(conns) + 1
                /\ UNCHANGED <<connLock, leaderAddr>>
          /\ Steps(t, "gc_bind", "call")
             => /\ leaderAddr' = g[t].arg
                /\ leaderConn' = leaderConn
                /\ g'[t].conn = leaderConn
                /\ conns' = conns
                /\ conns[leaderConn].target = Address(rpc, g[t].arg).addr
                /\ Cardinality(EventsOf(g'[t].trace, "dial")) = 1
                /\ Cardinality(EventsOf(g'[t].trace, "close")) <= 1]_vars

\* C4 witness: getConn(b) has returned the second connection after closing
\* the first, which was cached for another address.
C4_Witness ==
    \E t \in Threads :
       /\ HoldsReturned(t) /\ Len(g[t].trace) = 4
       /\ g[t].trace[1] = Event("close", 1, "")
       /\ g[t].trace[3] = Event("dial", 2, "")
       /\ g[t].conn = 2 /\ leaderConn = 2 /\ leaderAddr = g[t].arg
       /\ conns[1].closes = 1 /\ conns[1].target # conns[2].target
       /\ IsOpen(2)

InGetConn(t) == g[t].pc \in {"gc_close", "gc_resolve", "gc_dial", "gc_bind"}

\* The connections of cs that the leader cache dialed.
CachedConns(cs) == {h \in 1..Len(cs) : cs[h].cached}

\* The dials in the trace of goroutine t's call.
Dials(t) == EventsOf(g[t].trace, "dial")

\* The goroutines that are in a call.
InCall == {t \in Threads : g[t].pc # "idle"}

\* No call has returned yet and every goroutine in a call is in a Join,
\* Remove, Apply or Query for address a: the calls under way are all the
\* calls made on the new Client, whose cache was empty.
FirstCallers(a) ==
    /\ InCall # {}
    /\ calls = Cardinality(InCall)
    /\ \A t \in InCall : g[t].op \in GetConnOps /\ g[t].arg = a

\* C5: in every interleaving of all operations, at most one goroutine is
\* between Lock and Unlock of getConn; a call dials only after a miss
\* (the cache holds no connection or is bound to another address) and
\* at most once; a connection of the cache comes into being only by the
\* one dial of the goroutine that holds the lock, and that goroutine then
\* binds the cache to its address with that connection: one dial for each
\* move of the cache to a new target, never more.  Goroutines that call
\* getConn with one address on the empty cache of a new Client cause one
\* dial and all that return hold the same connection.
C5_OneDialPerTransition ==
    /\ [](/\ \A t, u \in Threads : InGetConn(t) /\ InGetConn(u) => t = u
          /\ \A t \in Threads : InGetConn(t) <=> connLock = t
          /\ \A t \in Threads : Cardinality(Dials(t)) <= 1
          /\ \A t \in Threads :
                g[t].pc = "gc_dial" => ~CacheHit(g[t].arg) /\ Dials(t) = {}
          /\ \A t \in Threads :
                g[t].pc = "gc_bind"
                => /\ Cardinality(Dials(t)) = 1
                   /\ \A i \in Dials(t) : g[t].trace[i].h = leaderConn
                   /\ conns[leaderConn].cached
                   /\ conns[leaderConn].target = Address(rpc, g[t].arg).addr
          /\ \A a \in Addrs :
                FirstCallers(a)
                => /\ Len(conns) <= 1
                   /\ \A t \in Threads : g[t].pc = "gc_dial" => Len(conns) = 0
                   /\ \A t \in Threads :
                         HoldsReturned(t)
                         => Len(conns) = 1 /\ g[t].conn = 1 /\ leaderConn = 1)
    /\ [][/\ CachedConns(conns') # CachedConns(conns)
             => \E t \in Threads :
                   /\ Steps(t, "gc_dial", "gc_bind") /\ connLock = t
                   /\ conns' = Append(conns, NewConn(Address(rpc, g[t].arg).addr, TRUE))
                   /\ leaderConn' = Len(conns) + 1
          /\ leaderAddr' # leaderAddr
             => \E t \in Threads :
                   /\ Steps(t, "gc_bind", "call") /\ connLock = t
                   /\ leaderAddr' = g[t].arg
                   /\ g'[t].conn = leaderConn /\ leaderConn' = leaderConn]_vars

\* C5 witness: the cache has moved from one address to another with one
\* dial, and the calls of all goroutines, made for the new address, hold
\* the one connection dialed for it.
C5_Witness ==
    /\ Len(conns) = 2 /\ CachedConns(conns) = {1, 2}
    /\ conns[1].closes = 1 /\ conns[1].target # conns[2].target
    /\ leaderConn = 2 /\ IsOpen(2)
    /\ \A t \in Threads : HoldsReturned(t) /\ g[t].conn = 2 /\ g[t].arg = leaderAddr

\* The goroutines that are in Notify with connection h.
NotifyHolders(h) == {t \in Threads : g[t].op = "Notify" /\ g[t].conn = h}

\* C7: a connection Notify dialed is open and held by exactly one Notify
\* call that has not returned, or has been closed exactly once and is held
\* by none: Notify closes it once before it returns, whatever NotifyPeer
\* returned, and nothing else closes it.
C7_NotifyClosesOwnConn ==
    \A h \in 1..Len(conns) :
       ~conns[h].cached =>
          \/ conns[h].closes = 0 /\ Cardinality(NotifyHolders(h)) = 1
          \/ conns[h].closes = 1 /\ NotifyHolders(h) = {}

\* C7 witness: Notify has returned a failure of NotifyPeer and its
\* connection is closed.
C7_Witness ==
    /\ calls = 1 /\ Len(conns) = 1
    /\ ~conns[1].cached /\ conns[1].closes = 1
    /\ \A t \in Threads : g[t].pc = "idle"
    /\ last = RemoteResult("UNAVAILABLE")

\* C8: no step of Notify (entry, resolve with or without error, dial with
\* or without error, the remote call, the return with its deferred close)
\* changes connLock, leaderAddr or leaderConn or any connection the cache
\* dialed, and the connection Notify calls NotifyPeer on is never one the
\* cache dialed.
C8_NotifyLeavesCache ==
    [][\A t \in Threads :
          (g'[t] # g[t] /\ "Notify" \in {g[t].op, g'[t].op})
          => /\ UNCHANGED cacheVars
             /\ \A h \in 1..Len(conns) : conns[h].cached => conns'[h] = conns[h]
             /\ g'[t].conn # NIL
                => ~conns'[g'[t].conn].cached /\ g'[t].conn # leaderConn'
             /\ \A i \in EventsOf(g'[t].trace, "rpc") :
                   ~conns'[g'[t].trace[i].h].cached]_vars

\* C8 witness: Notify has run to its end beside a bound cache, whose
\* connection is still open.
C8_Witness ==
    /\ calls = 2 /\ Len(conns) = 2
    /\ conns[1].cached /\ leaderConn = 1 /\ IsOpen(1) /\ leaderAddr # <<>>
    /\ ~conns[2].cached /\ conns[2].closes = 1
    /\ \A t \in Threads : g[t].pc = "idle"
    /\ last.phase = "remote"

\* C9: in Join, Remove, Apply, Query and Notify a failing resolver ends the
\* call with the error tagged "resolve address" before any dial or remote
\* call; a failing dial ends it with the error tagged "dial" before any
\* remote call; a call that gets its connection returns what the remote
\* call returned; and a call ends in no other way.
C9_ErrorPhases ==
    [][\A t \in Threads :
          LET tr == g[t].trace
              fails == Address(rpc, g[t].arg).err
          IN  /\ (g[t].pc \in {"gc_resolve", "n_resolve"} /\ g'[t] # g[t])
                 => IF fails
                    THEN /\ g'[t].pc = "idle"
                         /\ last' = [phase |-> "resolve address", val |-> "err"]
                         /\ conns' = conns
                         /\ EventsOf(tr, "dial") \cup EventsOf(tr, "rpc") = {}
                    ELSE g'[t].pc \in {"gc_dial", "n_dial"}
              /\ (g[t].pc \in {"gc_dial", "n_dial"} /\ g'[t] # g[t])
                 => IF conns' = conns
                    THEN /\ g'[t].pc = "idle"
                         /\ last' = [phase |-> "dial", val |-> "err"]
                         /\ EventsOf(tr, "rpc") = {}
                    ELSE g'[t].pc \in {"gc_bind", "n_call"}
              /\ (g[t].pc \in {"inflight", "n_inflight"} /\ g'[t] # g[t])
                 => /\ g'[t].pc = "idle"
                    /\ last'.phase = "remote"
                    /\ last'.val \in RemoteOutcomes(g[t].conn)
                    /\ Cardinality(EventsOf(tr, "rpc")) = 1
              /\ (g[t].op \in GetConnOps \cup {"Notify"} /\ g'[t].pc = "idle")
                 => g[t].pc \in {"gc_resolve", "n_resolve", "gc_dial", "n_dial",
                                 "inflight", "n_inflight"}]_vars

\* C9 witness: a call has ended with the resolver's error and nothing was
\* dialed.
C9_Witness ==
    /\ last = [phase |-> "resolve address", val |-> "err"]
    /\ conns = <<>>
    /\ \A t \in Threads : g[t].pc = "idle"

InFlight(t) == g[t].pc \in {"inflight", "n_inflight"}

\* The retry that was made last in trace tr.
LatestRetry(tr) == CHOOSE i \in EventsOf(tr, "retry") : \A j \in EventsOf(tr, "retry") : j <= i

\* C12: the transport makes another attempt only in Apply and Query, only
\* after an attempt that ended aborted, resource-exhausted, internal,
\* unavailable or not-found, and only while fewer than 5 attempts have been
\* made: a call in flight has made between 1 and 5 attempts, a Join, Notify
\* or Remove in flight exactly one, and no retry follows another outcome.
C12_RetryPolicy ==
    \A t \in Threads :
       LET tr == g[t].trace
       IN  /\ InFlight(t) => Attempts(tr) \in 1..5
           /\ (InFlight(t) /\ g[t].op \in {"Join", "Notify", "Remove"})
              => Attempts(tr) = 1
           /\ EventsOf(tr, "retry") # {}
              => /\ InFlight(t)
                 /\ g[t].op \in {"Apply", "Query"}
                 /\ tr[LatestRetry(tr)].x \in
                       {"ABORTED", "RESOURCE_EXHAUSTED", "INTERNAL",
                        "UNAVAILABLE", "NOT_FOUND"}

\* C12 witness: an Apply is in its fifth attempt, the fourth having ended
\* not-found.
C12_Witness ==
    \E t \in Threads :
       /\ g[t].op = "Apply" /\ g[t].pc = "inflight"
       /\ Attempts(g[t].trace) = 5
       /\ g[t].trace[Len(g[t].trace)] = Event("retry", g[t].conn, "NOT_FOUND")

\* C13: no cancellation by its caller ends an Apply in flight: each step of
\* it is a retry, or returns the status the remote call ended with (never
\* the CANCELED of a cancelled context, the connection being open); a Join,
\* Notify, Remove or Query in flight whose caller has cancelled the context
\* makes no further attempt and returns CANCELED.
C13_ApplyUncancellable ==
    [][\A t \in Threads :
          (InFlight(t) /\ g'[t] # g[t])
          => IF g[t].op = "Apply"
             THEN \/ /\ g'[t].pc = "inflight"
                     /\ Attempts(g'[t].trace) \in
                           {Attempts(g[t].trace), Attempts(g[t].trace) + 1}
                  \/ /\ g'[t].pc = "idle"
                     /\ last'.phase = "remote"
                     /\ last'.val \in RemoteCodes(g[t].conn)
             ELSE EventsOf(g[t].trace, "cancel") # {}
                  => /\ g'[t].pc = "idle"
                     /\ last' = RemoteResult("CANCELED")]_vars

\* C13 witness: an Apply has gone on to another attempt after its caller's
\* cancellation, on an open connection.
C13_Witness ==
    \E t \in Threads :
       LET tr == g[t].trace
       IN  /\ g[t].op = "Apply" /\ g[t].pc = "inflight" /\ IsOpen(g[t].conn)
           /\ \E i \in EventsOf(tr, "cancel") : \E j \in EventsOf(tr, "retry") : i < j

\* C14 (as claimed): whenever no goroutine is in getConn's critical
\* section, the cache holds a connection if and only if it holds a bound
\* address, and the connection held was dialed for the resolved address of
\* the bound address; so after successful calls, after a getConn that
\* failed at resolve or at dial, and after Close().
C14_ConnIffAddr ==
    connLock = 0 =>
       /\ leaderConn # NIL <=> leaderAddr # <<>>
       /\ leaderConn # NIL
          => conns[leaderConn].target = Address(rpc, leaderAddr).addr

\* The connections of the leader cache that are open.
OpenCached == {h \in 1..Len(conns) : conns[h].cached /\ conns[h].closes = 0}

\* C15: at most one connection the leader cache dialed is open at any
\* time, in every interleaving of getConn calls for equal or different
\* addresses and Close() calls.
C15_OneOpenCached == Cardinality(OpenCached) <= 1

\* C15 witness: the cache has dialed two connections, one after the other,
\* the second is open, and a Close() is under way beside the getConn.
C15_Witness ==
    /\ Len(conns) = 2 /\ \A h \in 1..2 : conns[h].cached
    /\ OpenCached = {2}
    /\ \E t, u \in Threads : g[t].op = "Close" /\ g[t].pc = "cl_close"
                              /\ g[u].op \in GetConnOps /\ g[u].pc = "gc_bind"

\* C16 (as claimed): Close() reads and releases the cached connection only
\* while it holds connLock: a goroutine between Close's read (line 134) and
\* its release (line 135) holds the lock, and no goroutine is inside
\* getConn's critical section at that time.
C16_CloseUnderLock ==
    \A t \in Threads :
       g[t].pc \in {"cl_load", "cl_close"}
       => /\ connLock = t
          /\ \A u \in Threads : ~InGetConn(u)

\* A step of getConn's critical section by goroutine u.
GetConnStep(u) ==
    GetConnCloseStale(u) \/ GetConnResolve(u) \/ GetConnDial(u) \/ GetConnBind(u)

\* C17: connLock is held by a goroutine exactly while it is between the
\* Lock and the Unlock of getConn, so never while its remote call is in
\* flight or about to be issued; a goroutine inside getConn can always take
\* its next step, whatever remote calls are in flight.
C17_LockOnlyInGetConn ==
    /\ \A t \in Threads : connLock = t <=> InGetConn(t)
    /\ \A t \in Threads : g[t].pc \in {"call", "inflight"} => connLock # t
    /\ \A u \in Threads : (InGetConn(u) /\ ~panicked) => ENABLED GetConnStep(u)
    /\ (connLock # 0 /\ ~panicked) => InGetConn(connLock)

\* C17 witness: the remote calls of all goroutines are in flight at the
\* same time on the one cached connection, and the lock is free.
C17_Witness ==
    /\ \A t \in Threads : g[t].op \in GetConnOps /\ g[t].pc = "inflight"
                           /\ g[t].conn = leaderConn
    /\ IsOpen(leaderConn) /\ connLock = 0

\* C18: no connection the leader cache dialed is leaked: each is the one
\* the cache holds or has been closed.
C18_NoLeak ==
    \A h \in 1..Len(conns) :
       conns[h].cached => (h = leaderConn \/ conns[h].closes >= 1)

\* C18 witness: the cache has replaced its connection twice and a dial has
\* failed since: every connection it dialed is closed and it holds none.
C18_Witness ==
    /\ Len(conns) = 2 /\ \A h \in 1..2 : conns[h].cached /\ conns[h].closes = 1
    /\ leaderConn = NIL /\ last = Errorf("dial")
    /\ \A t \in Threads : g[t].pc = "idle"

\* C19 (as claimed): a getConn that returns an error, from the resolver or
\* from the dial, leaves the cache as it was: it has closed no connection
\* and the bound address and connection are the same as before.
C19_ErrorLeavesCache ==
    [][\A t \in Threads :
          (InGetConn(t) /\ g'[t].pc = "idle")
          => /\ EventsOf(g[t].trace, "close") = {}
             /\ leaderConn' = leaderConn
             /\ leaderAddr' = leaderAddr
             /\ conns' = conns]_vars

\* C20 (as claimed): a connection getConn returned is not closed while the
\* remote call a Join, Remove, Apply or Query issued on it is in flight,
\* neither by a getConn for another address nor by Close().
C20_NoCloseInFlight ==
    [][\A t \in Threads :
          (g[t].op \in GetConnOps /\ g[t].pc = "inflight")
          => conns'[g[t].conn].closes = conns[g[t].conn].closes]_vars

=============================================================================
